---------------------------- MODULE Spec2Model ----------------------------
(***************************************************************************)
(* Ledger reconstruction and valuation engine of the personal finance      *)
(* manager: the zustand store (src/src/store/useStore.ts), the currency    *)
(* converter (utils/currency.ts) and the point-in-time balance functions   *)
(* (src/src/utils/financeCalculations.ts), together with the portfolio     *)
(* valuation, the Settings page and the account, portfolio and transaction *)
(* forms that write to the store.                                          *)
(*                                                                         *)
(* JavaScript numbers are modelled as exact rationals extended with the    *)
(* IEEE special values NaN, +Infinity, -Infinity; `undefined` is a value   *)
(* of its own that arithmetic coerces to NaN.  Rounding of doubles is not  *)
(* modelled.                                                               *)
(***************************************************************************)
EXTENDS Integers, Sequences, FiniteSets, TLC

VARIABLES accounts, transactions, settings, tz, portfolio, txForm, call, dashboard

vars == <<accounts, transactions, settings, tz, portfolio, txForm, call, dashboard>>

---------------------------------------------------------------------------
(* Bounds of the model.                                                    *)

\* the transaction log holds at most MaxTx transactions
MaxTx == 2

\* the TransactionForm is followed through at most MaxSubmitted submissions
MaxSubmitted == 1

\* account ids handed out by uuidv4(), and the order they are handed out in
AccountIds == {"a1", "a2"}

IdRank == [id \in AccountIds |-> IF id = "a1" THEN 1 ELSE 2]

\* the portfolio holds at most MaxHoldings holdings
MaxHoldings == 2

\* holding ids handed out by uuidv4(), numbered in the order they are handed out
HoldingIds == 1..MaxHoldings

\* currencies of the accounts that are created
AccountCurrencies == {"USD", "MYR"}

\* currencies of the holdings that are created
HoldingCurrencies == {"USD", "MYR"}

\* local offsets from UTC, in hours, of the machines the program runs on
TimeZones == {-5, 8}

---------------------------------------------------------------------------
(* JavaScript numbers.                                                     *)

Abs(x) == IF x < 0 THEN -x ELSE x

Sign(x) == IF x < 0 THEN -1 ELSE IF x > 0 THEN 1 ELSE 0

RECURSIVE Gcd(_, _)
Gcd(a, b) == IF b = 0 THEN a ELSE Gcd(b, a % b)

NaN == [k |-> "nan", n |-> 0, d |-> 1]

Undefined == [k |-> "undef", n |-> 0, d |-> 1]

Inf(s) == [k |-> "inf", n |-> s, d |-> 1]

\* the finite number n/d (d # 0), in lowest terms with a positive denominator
Fin(n, d) ==
    LET g == Gcd(Abs(n), Abs(d))
        s == IF d < 0 THEN -1 ELSE 1
    IN  [k |-> "fin", n |-> s * (n \div g), d |-> s * (d \div g)]

Num(i) == Fin(i, 1)

IsFinite(x) == x.k = "fin"

\* ToNumber(undefined) is NaN
IsNaN(x) == x.k \in {"nan", "undef"}

\* a + b
Add(a, b) ==
    IF IsNaN(a) \/ IsNaN(b) THEN NaN
    ELSE IF a.k = "inf" /\ b.k = "inf" THEN (IF a.n = b.n THEN a ELSE NaN)
    ELSE IF a.k = "inf" THEN a
    ELSE IF b.k = "inf" THEN b
    ELSE LET g == Gcd(a.d, b.d)
         IN  Fin(a.n * (b.d \div g) + b.n * (a.d \div g), (a.d \div g) * b.d)

\* -a
Neg(a) ==
    IF IsNaN(a) THEN NaN
    ELSE IF a.k = "inf" THEN Inf(-a.n)
    ELSE Fin(-a.n, a.d)

\* a - b
Sub(a, b) == Add(a, Neg(b))

\* a * b
Mul(a, b) ==
    IF IsNaN(a) \/ IsNaN(b) THEN NaN
    ELSE IF a.k = "inf" \/ b.k = "inf"
         THEN (IF Sign(a.n) * Sign(b.n) = 0 THEN NaN ELSE Inf(Sign(a.n) * Sign(b.n)))
    ELSE LET g == Gcd(Abs(a.n), b.d)
             h == Gcd(Abs(b.n), a.d)
         IN  Fin((a.n \div g) * (b.n \div h), (a.d \div h) * (b.d \div g))

\* a / b
Div(a, b) ==
    IF IsNaN(a) \/ IsNaN(b) THEN NaN
    ELSE IF a.k = "inf" THEN (IF b.k = "inf" THEN NaN
                              ELSE Inf(a.n * (IF b.n < 0 THEN -1 ELSE 1)))
    ELSE IF b.k = "inf" THEN Num(0)
    ELSE IF b.n = 0 THEN (IF a.n = 0 THEN NaN ELSE Inf(Sign(a.n)))
    ELSE Mul(a, Fin(b.d, b.n))

\* a > b
Gt(a, b) ==
    IF IsNaN(a) \/ IsNaN(b) THEN FALSE
    ELSE IF a.k = "inf" THEN a.n = 1 /\ ~(b.k = "inf" /\ b.n = 1)
    ELSE IF b.k = "inf" THEN b.n = -1
    ELSE a.n * b.d > b.n * a.d

\* truthiness of a number-or-undefined value, as used by `x || y`
Truthy(x) == ~IsNaN(x) /\ ~(x.k = "fin" /\ x.n = 0)

\* x || y
OrElse(x, y) == IF Truthy(x) THEN x ELSE y

---------------------------------------------------------------------------
(* Dates.  Time is counted from 2024-01-01T00:00:00.000Z; a timestamp is   *)
(* h whole hours plus ms milliseconds.  The process time zone tz is the    *)
(* local offset from UTC in whole hours.  A date-only ISO string is parsed *)
(* by `new Date` as midnight UTC, while date-fns works in local time.      *)

\* months are numbered from January 2024, which is month 1; December 2023 is
\* month 0 and earlier months are negative
YearOf(m) == 2024 + ((m - 1) \div 12)

MonthOfYear(m) == ((m - 1) % 12) + 1

IsLeapYear(y) == y % 4 = 0 /\ (y % 100 # 0 \/ y % 400 = 0)

\* the number of days of month m
DaysInMonth(m) ==
    IF MonthOfYear(m) = 2 THEN (IF IsLeapYear(YearOf(m)) THEN 29 ELSE 28)
    ELSE IF MonthOfYear(m) \in {4, 6, 9, 11} THEN 30
    ELSE 31

\* the number of days from 2024-01-01 to the first day of month m
RECURSIVE DaysBefore(_)
DaysBefore(m) ==
    IF m = 1 THEN 0
    ELSE IF m > 1 THEN DaysBefore(m - 1) + DaysInMonth(m - 1)
    ELSE DaysBefore(m + 1) - DaysInMonth(m)

\* new Date("YYYY-MM-DD"): midnight UTC of that calendar date
NewDate(iso) == [h |-> 24 * (DaysBefore(iso.m) + iso.d - 1), ms |-> 0]

\* the local calendar day a timestamp falls in, counted from 2024-01-01
LocalDay(t) == (t.h + tz) \div 24

\* the local calendar month a timestamp falls in
LocalMonth(t) ==
    LET day == LocalDay(t)
        guess == ((day * 12) \div 365) + 1
    IN  CHOOSE m \in (guess - 1)..(guess + 1) :
            DaysBefore(m) <= day /\ day < DaysBefore(m + 1)

\* date-fns endOfMonth: 23:59:59.999 local time on the last day of the local month
endOfMonth(t) ==
    LET m == LocalMonth(t)
    IN  [h |-> 24 * DaysBefore(m + 1) - 1 - tz, ms |-> 3599999]

\* date-fns isAfter
isAfter(a, b) == a.h > b.h \/ (a.h = b.h /\ a.ms > b.ms)

---------------------------------------------------------------------------
(* utils/currency.ts                                                       *)

\* rates[c]
Rate(rates, c) == IF c \in DOMAIN rates THEN rates[c] ELSE Undefined

\* multiplies by the rate of `to` without dividing by the rate of `from`
convertCurrency_NoPivot(amount, from, to, rates) ==
    IF from = to THEN amount
    ELSE Mul(amount, Rate(rates, to))

\* mutant: multiplies by the rate of `from` and divides by the rate of `to`
convertCurrency_Inverted(amount, from, to, rates) ==
    IF from = to THEN amount
    ELSE Div(Mul(amount, Rate(rates, from)), Rate(rates, to))

convertCurrency(amount, from, to, rates) ==
    IF from = to THEN amount
    ELSE Mul(Div(amount, Rate(rates, from)), Rate(rates, to))

---------------------------------------------------------------------------
(* utils/financeCalculations.ts                                            *)

NoAccount == ""

\* accounts.find(a => a.id === id): index of the first match, 0 when none
RECURSIVE FindFrom(_, _, _)
FindFrom(accs, id, i) ==
    IF i > Len(accs) THEN 0
    ELSE IF accs[i].id = id THEN i
    ELSE FindFrom(accs, id, i + 1)

Find(accs, id) == FindFrom(accs, id, 1)

\* lines 47-49: sum of the converted initial balances
RECURSIVE TotalInitial(_, _, _)
TotalInitial(accs, st, i) ==
    IF i = 0 THEN Num(0)
    ELSE Add(TotalInitial(accs, st, i - 1),
             convertCurrency(accs[i].initialBalance, accs[i].currency,
                             st.baseCurrency, st.exchangeRates))

\* mutant: the inflow of a transfer is converted with the rate of the source
\* account's currency
CashTxAmount_SourceRate(accs, t, targetEnd, st) ==
    IF isAfter(NewDate(t.date), targetEnd) THEN Num(0)
    ELSE IF Find(accs, t.accountId) = 0 THEN Num(0)
    ELSE
      LET account == accs[Find(accs, t.accountId)]
          rate == OrElse(Rate(st.exchangeRates, account.currency), Num(1))
          baseRate == OrElse(Rate(st.exchangeRates, st.baseCurrency), Num(1))
          amountInBase == Mul(Div(t.amount, rate), baseRate)
      IN  IF t.type = "Income" THEN amountInBase
          ELSE IF t.type = "Expense" THEN Neg(amountInBase)
          ELSE IF t.toAccountId # NoAccount /\ Find(accs, t.toAccountId) # 0
               THEN IF t.toAmount # Undefined
                    THEN Add(Neg(amountInBase), Mul(Div(t.toAmount, rate), baseRate))
                    ELSE Add(Neg(amountInBase), amountInBase)
               ELSE Neg(amountInBase)

\* lines 55-93: the contribution of one transaction to the global fold
CashTxAmount(accs, t, targetEnd, st) ==
    IF isAfter(NewDate(t.date), targetEnd) THEN Num(0)
    ELSE IF Find(accs, t.accountId) = 0 THEN Num(0)
    ELSE
      LET account == accs[Find(accs, t.accountId)]
          rate == OrElse(Rate(st.exchangeRates, account.currency), Num(1))
          baseRate == OrElse(Rate(st.exchangeRates, st.baseCurrency), Num(1))
          amountInBase == Mul(Div(t.amount, rate), baseRate)
      IN  IF t.type = "Income" THEN amountInBase
          ELSE IF t.type = "Expense" THEN Neg(amountInBase)
          ELSE IF t.toAccountId # NoAccount /\ Find(accs, t.toAccountId) # 0
               THEN LET toAccount == accs[Find(accs, t.toAccountId)]
                        toRate == OrElse(Rate(st.exchangeRates, toAccount.currency), Num(1))
                    IN  IF t.toAmount # Undefined
                        THEN Add(Neg(amountInBase), Mul(Div(t.toAmount, toRate), baseRate))
                        ELSE Add(Neg(amountInBase), amountInBase)
               ELSE Neg(amountInBase)

RECURSIVE TotalTransactions(_, _, _, _, _)
TotalTransactions(accs, txs, targetEnd, st, i) ==
    IF i = 0 THEN Num(0)
    ELSE Add(TotalTransactions(accs, txs, targetEnd, st, i - 1),
             CashTxAmount(accs, txs[i], targetEnd, st))

getCashBalanceAtDate(accs, txs, date, st) ==
    Add(TotalInitial(accs, st, Len(accs)),
        TotalTransactions(accs, txs, endOfMonth(date), st, Len(txs)))

\* mutant: only the transactions the account is the source of are kept
AccountTxFilter_SourceOnly(account, t, targetEnd) ==
    /\ ~isAfter(NewDate(t.date), targetEnd)
    /\ t.accountId = account.id

\* lines 114-117: the filter predicate
AccountTxFilter(account, t, targetEnd) ==
    /\ ~isAfter(NewDate(t.date), targetEnd)
    /\ (t.accountId = account.id \/ t.toAccountId = account.id)

\* mutant: an incoming transfer is credited with amount, toAmount is ignored
AccountTxAmount_IgnoresToAmount(account, t) ==
    IF t.type = "Income" /\ t.accountId = account.id THEN t.amount
    ELSE IF t.type = "Expense" /\ t.accountId = account.id THEN Neg(t.amount)
    ELSE IF t.type = "Transfer"
         THEN IF t.accountId = account.id THEN Neg(t.amount)
              ELSE IF t.toAccountId = account.id THEN t.amount
                   ELSE Num(0)
    ELSE Num(0)

\* lines 121-133: the contribution of one filtered transaction
AccountTxAmount(account, t) ==
    IF t.type = "Income" /\ t.accountId = account.id THEN t.amount
    ELSE IF t.type = "Expense" /\ t.accountId = account.id THEN Neg(t.amount)
    ELSE IF t.type = "Transfer"
         THEN IF t.accountId = account.id THEN Neg(t.amount)
              ELSE IF t.toAccountId = account.id
                   THEN (IF t.toAmount # Undefined THEN t.toAmount ELSE t.amount)
                   ELSE Num(0)
    ELSE Num(0)

RECURSIVE TotalTransactionAmount(_, _, _, _)
TotalTransactionAmount(account, txs, targetEnd, i) ==
    IF i = 0 THEN Num(0)
    ELSE IF AccountTxFilter(account, txs[i], targetEnd)
         THEN Add(TotalTransactionAmount(account, txs, targetEnd, i - 1),
                  AccountTxAmount(account, txs[i]))
         ELSE TotalTransactionAmount(account, txs, targetEnd, i - 1)

getAccountBalanceAtDate(account, txs, date) ==
    Add(account.initialBalance,
        TotalTransactionAmount(account, txs, endOfMonth(date), Len(txs)))

---------------------------------------------------------------------------
(* utils/financeCalculations.ts: portfolio valuation, net worth and        *)
(* percentage change; pages/Portfolio.tsx computes the totals once more.   *)

\* item.currency || settings.baseCurrency
ItemCurrency(item, st) ==
    IF item.currency = "" THEN st.baseCurrency ELSE item.currency

RECURSIVE PortfolioTotalCost(_, _, _)
PortfolioTotalCost(pf, st, i) ==
    IF i = 0 THEN Num(0)
    ELSE Add(PortfolioTotalCost(pf, st, i - 1),
             convertCurrency(pf[i].costBasis, ItemCurrency(pf[i], st),
                             st.baseCurrency, st.exchangeRates))

ItemMarketValue_IgnoresQuantity(item) == item.currentPrice

\* item.quantity * item.currentPrice
ItemMarketValue(item) == Mul(item.quantity, item.currentPrice)

RECURSIVE PortfolioTotalValue(_, _, _)
PortfolioTotalValue(pf, st, i) ==
    IF i = 0 THEN Num(0)
    ELSE LET itemMarketValue == ItemMarketValue(pf[i])
         IN  Add(PortfolioTotalValue(pf, st, i - 1),
                 convertCurrency(itemMarketValue, ItemCurrency(pf[i], st),
                                 st.baseCurrency, st.exchangeRates))

GainLossPercent_NoGuard(totalGainLoss, totalCost) ==
    Mul(Div(totalGainLoss, totalCost), Num(100))

\* totalCost > 0 ? (totalGainLoss / totalCost) * 100 : 0
GainLossPercent(totalGainLoss, totalCost) ==
    IF Gt(totalCost, Num(0))
    THEN Mul(Div(totalGainLoss, totalCost), Num(100))
    ELSE Num(0)

calculatePortfolioStats(pf, st) ==
    LET totalCost == PortfolioTotalCost(pf, st, Len(pf))
        totalValue == PortfolioTotalValue(pf, st, Len(pf))
        totalGainLoss == Sub(totalValue, totalCost)
    IN  [totalCost |-> totalCost,
         totalValue |-> totalValue,
         totalGainLoss |-> totalGainLoss,
         totalGainLossPercent |-> GainLossPercent(totalGainLoss, totalCost)]

\* the totals of the Portfolio page, computed by its own copy of the folds
RECURSIVE PageTotalCost(_, _, _)
PageTotalCost(pf, st, i) ==
    IF i = 0 THEN Num(0)
    ELSE Add(PageTotalCost(pf, st, i - 1),
             convertCurrency(pf[i].costBasis, ItemCurrency(pf[i], st),
                             st.baseCurrency, st.exchangeRates))

RECURSIVE PageTotalValue(_, _, _)
PageTotalValue(pf, st, i) ==
    IF i = 0 THEN Num(0)
    ELSE LET itemMarketValue == Mul(pf[i].quantity, pf[i].currentPrice)
         IN  Add(PageTotalValue(pf, st, i - 1),
                 convertCurrency(itemMarketValue, ItemCurrency(pf[i], st),
                                 st.baseCurrency, st.exchangeRates))

PortfolioPageTotals(pf, st) ==
    LET totalCost == PageTotalCost(pf, st, Len(pf))
        totalValue == PageTotalValue(pf, st, Len(pf))
    IN  [totalCost |-> totalCost,
         totalValue |-> totalValue,
         totalGainLoss |-> Sub(totalValue, totalCost)]

\* a net worth that counts the holdings only from February on
getNetWorthAtDate_HoldingsFromFebruary(accs, txs, pf, date, st) ==
    LET cashBalance == getCashBalanceAtDate(accs, txs, date, st)
        portfolioValue == calculatePortfolioStats(pf, st).totalValue
    IN  IF LocalMonth(date) >= 2 THEN Add(cashBalance, portfolioValue) ELSE cashBalance

getNetWorthAtDate(accs, txs, pf, date, st) ==
    LET cashBalance == getCashBalanceAtDate(accs, txs, date, st)
        portfolioValue == calculatePortfolioStats(pf, st).totalValue
    IN  Add(cashBalance, portfolioValue)

calculatePercentageChange_DividesByCurrent(current, previous) ==
    IF previous = Num(0) THEN Num(0)
    ELSE Mul(Div(Sub(current, previous), current), Num(100))

calculatePercentageChange(current, previous) ==
    IF previous = Num(0) THEN Num(0)
    ELSE Mul(Div(Sub(current, previous), previous), Num(100))

---------------------------------------------------------------------------
(* store/useStore.ts                                                       *)

DEFAULT_SETTINGS ==
    [baseCurrency |-> "IDR",
     exchangeRates |-> [c \in {"USD", "MYR", "IDR"} |->
                           IF c = "USD" THEN Num(1)
                           ELSE IF c = "MYR" THEN Fin(47, 10)
                           ELSE Num(15500)],
     theme |-> "system"]

\* the accounts a caller passes to addAccount
AccountInputs ==
    [id : AccountIds, currency : AccountCurrencies, initialBalance : {Num(100)}]

\* the calendar date of the transactions that are recorded: 2024-02-01, the
\* first day after the month the earliest queries are about
TxDates == {[m |-> 2, d |-> 1]}

\* the transactions a caller passes to addTransaction
TxInputs ==
    [type : {"Income", "Expense"}, accountId : {"a1"}, toAccountId : {NoAccount},
     amount : {Num(10)}, toAmount : {Undefined}, date : TxDates]
    \cup
    [type : {"Transfer"}, accountId : {"a1"}, toAccountId : {"a1", "a2"},
     amount : {Num(10)}, toAmount : {Undefined, Num(9)}, date : TxDates]

addAccount(account) ==
    /\ accounts' = Append(accounts, account)
    /\ UNCHANGED <<transactions, settings, tz, portfolio, txForm, call, dashboard>>

\* mutant: the transfers into the removed account are kept
removeAccount_KeepsIncoming(id) ==
    LET keepAccount(a) == a.id # id
        keepTx(t) == t.accountId # id
    IN  /\ accounts' = SelectSeq(accounts, keepAccount)
        /\ transactions' = SelectSeq(transactions, keepTx)
        /\ UNCHANGED <<settings, tz, portfolio, txForm, call, dashboard>>

removeAccount(id) ==
    LET keepAccount(a) == a.id # id
        keepTx(t) == t.accountId # id /\ t.toAccountId # id
    IN  /\ accounts' = SelectSeq(accounts, keepAccount)
        /\ transactions' = SelectSeq(transactions, keepTx)
        /\ UNCHANGED <<settings, tz, portfolio, txForm, call, dashboard>>

updateAccount(id, updates) ==
    /\ accounts' = [k \in 1..Len(accounts) |->
                       IF accounts[k].id = id
                       THEN [f \in DOMAIN accounts[k] |->
                                IF f \in DOMAIN updates THEN updates[f] ELSE accounts[k][f]]
                       ELSE accounts[k]]
    /\ UNCHANGED <<transactions, settings, tz, portfolio, txForm, call, dashboard>>

addTransaction(transaction) ==
    /\ Len(transactions) < MaxTx
    /\ transactions' = Append(transactions, transaction)
    /\ UNCHANGED <<accounts, settings, tz, portfolio, txForm, call, dashboard>>

removeTransaction(id) ==
    LET keepTx(t) == t.id # id
    IN  /\ transactions' = SelectSeq(transactions, keepTx)
        /\ UNCHANGED <<accounts, settings, tz, portfolio, txForm, call, dashboard>>

updateTransaction(id, updates) ==
    /\ transactions' = [k \in 1..Len(transactions) |->
                           IF transactions[k].id = id
                           THEN [f \in DOMAIN transactions[k] |->
                                    IF f \in DOMAIN updates THEN updates[f]
                                    ELSE transactions[k][f]]
                           ELSE transactions[k]]
    /\ UNCHANGED <<accounts, settings, tz, portfolio, txForm, call, dashboard>>

addPortfolioItem(item) ==
    /\ Len(portfolio) < MaxHoldings
    /\ portfolio' = Append(portfolio, item)
    /\ UNCHANGED <<accounts, transactions, settings, tz, txForm, call, dashboard>>

removePortfolioItem(id) ==
    LET keepItem(i) == i.id # id
    IN  /\ portfolio' = SelectSeq(portfolio, keepItem)
        /\ UNCHANGED <<accounts, transactions, settings, tz, txForm, call, dashboard>>

updatePortfolioItem(id, updates) ==
    /\ portfolio' = [k \in 1..Len(portfolio) |->
                        IF portfolio[k].id = id
                        THEN [f \in DOMAIN portfolio[k] |->
                                 IF f \in DOMAIN updates THEN updates[f] ELSE portfolio[k][f]]
                        ELSE portfolio[k]]
    /\ UNCHANGED <<accounts, transactions, settings, tz, txForm, call, dashboard>>

updateSettings(updates) ==
    /\ settings' = [f \in DOMAIN settings |->
                       IF f \in DOMAIN updates THEN updates[f] ELSE settings[f]]
    /\ UNCHANGED <<accounts, transactions, tz, portfolio, txForm, call, dashboard>>

resetData ==
    /\ accounts' = <<>>
    /\ transactions' = <<>>
    /\ portfolio' = <<>>
    /\ settings' = DEFAULT_SETTINGS
    /\ UNCHANGED <<tz, txForm, call, dashboard>>

---------------------------------------------------------------------------
(* pages/Settings.tsx                                                      *)

\* the base-currency select: its options are the keys of the rate table
SetBaseCurrency(c) ==
    /\ c \in DOMAIN settings.exchangeRates
    /\ updateSettings([baseCurrency |-> c])

\* the delete button of a rate row; the USD row has none
DeleteCurrency(currency) ==
    /\ currency \in DOMAIN settings.exchangeRates
    /\ currency # "USD"
    /\ LET newRates == [c \in DOMAIN settings.exchangeRates \ {currency} |->
                           settings.exchangeRates[c]]
       IN  updateSettings([exchangeRates |-> newRates])

\* what the user types into the number input of a rate row
RateTexts == {"", "0", "2", "-2"}

\* parseFloat of the texts that are typed into the number inputs
parseFloat(text) ==
    IF text = "0" THEN Num(0)
    ELSE IF text = "2" THEN Num(2)
    ELSE IF text = "-2" THEN Num(-2)
    ELSE IF text = "9" THEN Num(9)
    ELSE IF text = "10" THEN Num(10)
    ELSE NaN

SetRate_EditsAnchor(currency, text) ==
    /\ currency \in DOMAIN settings.exchangeRates
    /\ LET newRates == [c \in DOMAIN settings.exchangeRates |->
                           IF c = currency THEN OrElse(parseFloat(text), Num(0))
                           ELSE settings.exchangeRates[c]]
       IN  updateSettings([exchangeRates |-> newRates])

\* onChange of the number input of a rate row; the input of the USD row is
\* disabled
SetRate(currency, text) ==
    /\ currency \in DOMAIN settings.exchangeRates
    /\ currency # "USD"
    /\ LET newRates == [c \in DOMAIN settings.exchangeRates |->
                           IF c = currency THEN OrElse(parseFloat(text), Num(0))
                           ELSE settings.exchangeRates[c]]
       IN  updateSettings([exchangeRates |-> newRates])

\* what the user types into the new-code input
CodeTexts == {"", "eur", "EUR", "usd", "myr"}

\* String.prototype.toUpperCase on those texts
toUpperCase(text) ==
    IF text \in {"eur", "EUR"} THEN "EUR"
    ELSE IF text = "usd" THEN "USD"
    ELSE IF text = "myr" THEN "MYR"
    ELSE text

\* the Add button next to the new-code input
AddCurrencyCode(text) ==
    LET val == toUpperCase(text)
    IN  /\ val # ""
        /\ ~Truthy(Rate(settings.exchangeRates, val))
        /\ LET newRates == [c \in DOMAIN settings.exchangeRates \cup {val} |->
                               IF c = val THEN Num(1) ELSE settings.exchangeRates[c]]
           IN  updateSettings([exchangeRates |-> newRates])

\* handleReset, once the user has confirmed
handleReset == resetData

---------------------------------------------------------------------------
(* The program.                                                            *)

\* the TransactionForm while it is not mounted
FormClosed ==
    [open |-> FALSE, type |-> "Expense", accountId |-> NoAccount,
     toAccountId |-> NoAccount, amount |-> Num(0), toAmount |-> Undefined,
     isCrossCurrency |-> FALSE]

\* no call of calculatePercentageChange has been made yet
NoCall == [fn |-> "none", current |-> Num(0), previous |-> Num(0), result |-> Num(0)]

\* the Dashboard page while it is not mounted: no month selected, no memoized
\* asset allocation
DashboardUnmounted ==
    [mounted |-> FALSE, selectedMonth |-> 0, percentageMode |-> "MoM",
     allocationData |-> <<>>]

Init ==
    /\ accounts = <<>>
    /\ transactions = <<>>
    /\ portfolio = <<>>
    /\ settings = DEFAULT_SETTINGS
    /\ tz \in TimeZones
    /\ txForm = FormClosed
    /\ call = NoCall
    /\ dashboard = DashboardUnmounted

\* AccountForm: a new account gets a fresh uuid
AddAccount ==
    \E account \in AccountInputs :
        /\ \A i \in 1..Len(accounts) : IdRank[accounts[i].id] < IdRank[account.id]
        /\ addAccount(account)

RemoveAccount == \E id \in AccountIds : removeAccount(id)

AddTransaction == \E transaction \in TxInputs : addTransaction(transaction)

ChangeBaseCurrency == \E c \in DOMAIN settings.exchangeRates : SetBaseCurrency(c)

RemoveCurrency == \E c \in DOMAIN settings.exchangeRates : DeleteCurrency(c)

Next ==
    \/ AddAccount
    \/ RemoveAccount
    \/ AddTransaction
    \/ ChangeBaseCurrency
    \/ RemoveCurrency

Spec == Init /\ [][Next]_vars

---------------------------------------------------------------------------
(* The portfolio: PortfolioForm and the Portfolio page, over a ledger      *)
(* that was recorded before.                                               *)

\* what the user types into the PortfolioForm
HoldingFormInputs ==
    [quantity : {Num(2)}, unitCost : {Num(0), Num(5), Num(-1)}, currentPrice : {Num(25)}]

\* the currency select lists the keys of the rate table; its initial value
\* is the base currency
HoldingFormCurrencies == DOMAIN settings.exchangeRates \cup {settings.baseCurrency}

\* the form keeps costBasis = quantity * unitCost
HoldingFormData(in, currency) ==
    [quantity |-> in.quantity,
     costBasis |-> Mul(in.quantity, in.unitCost),
     currentPrice |-> in.currentPrice,
     currency |-> currency]

\* PortfolioForm.handleSubmit without initialData: a new holding gets a fresh uuid
AddPortfolioItem ==
    \E id \in HoldingIds : \E in \in HoldingFormInputs :
      \E currency \in HoldingFormCurrencies \cap HoldingCurrencies :
        /\ \A i \in 1..Len(portfolio) : portfolio[i].id < id
        /\ addPortfolioItem([id |-> id] @@ HoldingFormData(in, currency))

\* PortfolioForm.handleSubmit with initialData
EditPortfolioItem ==
    \E i \in 1..Len(portfolio) : \E in \in HoldingFormInputs :
        \E currency \in (DOMAIN settings.exchangeRates
                          \cup {ItemCurrency(portfolio[i], settings)}) \cap HoldingCurrencies :
            updatePortfolioItem(portfolio[i].id, HoldingFormData(in, currency))

\* Portfolio.handleDelete
RemovePortfolioItem == \E i \in 1..Len(portfolio) : removePortfolioItem(portfolio[i].id)

\* ledgers the store holds when the portfolio is opened
LedgerSnapshots ==
    LET a1 == [id |-> "a1", currency |-> "USD", initialBalance |-> Num(100)]
        expense == [type |-> "Expense", accountId |-> "a1", toAccountId |-> NoAccount,
                    amount |-> Num(10), toAmount |-> Undefined, date |-> [m |-> 2, d |-> 1]]
    IN  {<< <<>>, <<>> >>, << <<a1>>, <<>> >>, << <<a1>>, <<expense>> >>}

InitPortfolio ==
    /\ \E ledger \in LedgerSnapshots :
          accounts = ledger[1] /\ transactions = ledger[2]
    /\ portfolio = <<>>
    /\ settings = DEFAULT_SETTINGS
    /\ tz \in TimeZones
    /\ txForm = FormClosed
    /\ call = NoCall
    /\ dashboard = DashboardUnmounted

NextPortfolio ==
    \/ AddPortfolioItem
    \/ EditPortfolioItem
    \/ RemovePortfolioItem
    \/ ChangeBaseCurrency

SpecPortfolio == InitPortfolio /\ [][NextPortfolio]_vars

---------------------------------------------------------------------------
(* The Settings page on its own.                                           *)

EditRate == \E c \in DOMAIN settings.exchangeRates : \E text \in RateTexts : SetRate(c, text)

AddCurrency == \E text \in CodeTexts : AddCurrencyCode(text)

ResetData == handleReset

NextSettings ==
    \/ EditRate
    \/ RemoveCurrency
    \/ AddCurrency
    \/ ChangeBaseCurrency
    \/ ResetData

SpecSettings == Init /\ [][NextSettings]_vars

---------------------------------------------------------------------------
(* The forms that store a currency, next to the Settings page that edits   *)
(* the rate table.                                                         *)

\* AccountForm.handleSubmit with initialData; the currency select lists the
\* codes of the form's own CURRENCIES
EditAccount ==
    \E i \in 1..Len(accounts) : \E currency \in AccountCurrencies :
        updateAccount(accounts[i].id,
                      [currency |-> currency, initialBalance |-> accounts[i].initialBalance])

NextForms ==
    \/ AddAccount
    \/ EditAccount
    \/ AddPortfolioItem
    \/ EditPortfolioItem
    \/ EditRate
    \/ RemoveCurrency
    \/ AddCurrency
    \/ ResetData

SpecForms == Init /\ [][NextForms]_vars

---------------------------------------------------------------------------
(* TransactionForm, opened to record a new transaction.                    *)

\* Number.prototype.toFixed(2) followed by parseFloat: the nearest multiple
\* of 0.01
ToFixed2(x) ==
    IF ~IsFinite(x) THEN x
    ELSE Fin(Sign(x.n) * ((2 * 100 * Abs(x.n) + x.d) \div (2 * x.d)), 100)

\* the effect that detects a cross-currency transfer and estimates toAmount;
\* it runs after every change of type, accountId, toAccountId or amount
CrossCurrencyEffect(fd) ==
    IF fd.type = "Transfer" /\ fd.accountId # "" /\ fd.toAccountId # ""
    THEN LET from == Find(accounts, fd.accountId)
             to == Find(accounts, fd.toAccountId)
         IN  IF from # 0 /\ to # 0 /\ accounts[from].currency # accounts[to].currency
             THEN LET fromRate == OrElse(Rate(settings.exchangeRates, accounts[from].currency), Num(1))
                      toRate == OrElse(Rate(settings.exchangeRates, accounts[to].currency), Num(1))
                      estimatedToAmount == Mul(Div(fd.amount, fromRate), toRate)
                  IN  IF Gt(fd.amount, Num(0)) /\ (fd.toAmount = Undefined \/ fd.toAmount = Num(0))
                      THEN [fd EXCEPT !.isCrossCurrency = TRUE,
                                      !.toAmount = ToFixed2(estimatedToAmount)]
                      ELSE [fd EXCEPT !.isCrossCurrency = TRUE]
             ELSE [fd EXCEPT !.isCrossCurrency = FALSE, !.toAmount = Undefined]
    ELSE [fd EXCEPT !.isCrossCurrency = FALSE]

setFormData(fd) ==
    /\ txForm' = CrossCurrencyEffect(fd)
    /\ UNCHANGED <<accounts, transactions, settings, tz, portfolio, call, dashboard>>

\* the form is mounted; without accounts it only shows a notice
OpenTransactionForm ==
    /\ ~txForm.open
    /\ Len(accounts) > 0
    /\ setFormData([FormClosed EXCEPT !.open = TRUE, !.accountId = accounts[1].id])

\* the Expense / Income / Transfer buttons
SelectType ==
    \E type \in {"Expense", "Income", "Transfer"} :
        /\ txForm.open
        /\ setFormData([txForm EXCEPT !.type = type])

\* the account select lists every account
SelectAccount ==
    \E i \in 1..Len(accounts) :
        /\ txForm.open
        /\ setFormData([txForm EXCEPT !.accountId = accounts[i].id])

\* the To Account select, shown for a Transfer, lists "Select Account" and
\* the accounts other than the selected source
SelectToAccount ==
    \E id \in {NoAccount} \cup {accounts[i].id : i \in 1..Len(accounts)} :
        /\ txForm.open
        /\ txForm.type = "Transfer"
        /\ id # txForm.accountId
        /\ setFormData([txForm EXCEPT !.toAccountId = id])

\* what the user types into the Amount input
AmountTexts == {"", "10"}

EnterAmount ==
    \E text \in AmountTexts :
        /\ txForm.open
        /\ setFormData([txForm EXCEPT !.amount = OrElse(parseFloat(text), Num(0))])

\* what the user types into the Converted Amount input
ToAmountTexts == {"", "9"}

\* the Converted Amount input, shown while isCrossCurrency; toAmount is not
\* among the dependencies of the effect
EnterToAmount ==
    \E text \in ToAmountTexts :
        /\ txForm.open
        /\ txForm.isCrossCurrency
        /\ txForm' = [txForm EXCEPT !.toAmount = OrElse(parseFloat(text), Num(0))]
        /\ UNCHANGED <<accounts, transactions, settings, tz, portfolio, call, dashboard>>

\* handleSubmit without initialData, then onClose
SubmitTransaction ==
    \E date \in TxDates :
        /\ txForm.open
        /\ Len(transactions) < MaxSubmitted
        /\ transactions' = Append(transactions,
               [type |-> txForm.type,
                accountId |-> txForm.accountId,
                toAccountId |-> txForm.toAccountId,
                amount |-> OrElse(txForm.amount, Num(0)),
                toAmount |-> IF txForm.isCrossCurrency
                             THEN OrElse(txForm.toAmount, Num(0))
                             ELSE Undefined,
                date |-> date])
        /\ txForm' = FormClosed
        /\ UNCHANGED <<accounts, settings, tz, portfolio, call, dashboard>>

\* accounts are added while the form is not shown
AddAccountBeforeForm == ~txForm.open /\ AddAccount

NextTxForm ==
    \/ AddAccountBeforeForm
    \/ OpenTransactionForm
    \/ SelectType
    \/ SelectAccount
    \/ SelectToAccount
    \/ EnterAmount
    \/ EnterToAmount
    \/ SubmitTransaction

SpecTxForm == Init /\ [][NextTxForm]_vars

---------------------------------------------------------------------------
(* Calls of calculatePercentageChange, as the Dashboard makes them with    *)
(* two amounts.                                                            *)

\* the amounts the function is called with
PercentageInputs ==
    {Num(0), Num(10), Num(-10), Num(25), Num(-4), Fin(5, 2), NaN, Inf(1)}

CallPercentageChange ==
    \E current \in PercentageInputs : \E previous \in PercentageInputs :
        /\ call' = [fn |-> "calculatePercentageChange",
                    current |-> current,
                    previous |-> previous,
                    result |-> calculatePercentageChange(current, previous)]
        /\ UNCHANGED <<accounts, transactions, settings, tz, portfolio, txForm, dashboard>>

NextCalc == CallPercentageChange

SpecCalc == Init /\ [][NextCalc]_vars

---------------------------------------------------------------------------
(* Vocabulary of the properties.                                           *)

\* the instants at which balances are queried: 2024-01-15T12:00Z,
\* 2024-01-31T20:00Z and 2024-02-10T12:00Z
Instants == {[h |-> x, ms |-> 0] : x \in {348, 740, 972}}

\* the transaction log without its i-th entry
WithoutTx(txs, i) == SubSeq(txs, 1, i - 1) \o SubSeq(txs, i + 1, Len(txs))

\* the date cutoff of the balance functions
InCutoff(t, date) == ~isAfter(NewDate(t.date), endOfMonth(date))

HasAccount(id) == \E i \in 1..Len(accounts) : accounts[i].id = id

CurrencyOf(id) == accounts[Find(accounts, id)].currency

\* sum over the accounts of their own balance converted to the base currency
RECURSIVE SumOfConvertedBalances(_, _, _, _, _)
SumOfConvertedBalances(accs, txs, date, st, i) ==
    IF i = 0 THEN Num(0)
    ELSE Add(SumOfConvertedBalances(accs, txs, date, st, i - 1),
             convertCurrency(getAccountBalanceAtDate(accs[i], txs, date),
                             accs[i].currency, st.baseCurrency, st.exchangeRates))

---------------------------------------------------------------------------
(* C1: at every instant the cash balance equals the sum over the accounts  *)
(* of the account's own balance converted to the base currency.            *)
C1_CashIsSumOfAccountBalances ==
    \A date \in Instants :
        getCashBalanceAtDate(accounts, transactions, date, settings)
            = SumOfConvertedBalances(accounts, transactions, date, settings, Len(accounts))

---------------------------------------------------------------------------
\* the signed effect the ledger policy gives a transaction on an account
C2_Effect(account, t) ==
    IF t.type = "Income" /\ t.accountId = account.id THEN t.amount
    ELSE IF t.type = "Expense" /\ t.accountId = account.id THEN Neg(t.amount)
    ELSE IF t.type = "Transfer" /\ t.accountId = account.id THEN Neg(t.amount)
    ELSE IF t.type = "Transfer" /\ t.toAccountId = account.id /\ t.accountId # account.id
         THEN (IF t.toAmount = Undefined THEN t.amount ELSE t.toAmount)
    ELSE Num(0)

RECURSIVE C2_SumOfEffects(_, _, _, _)
C2_SumOfEffects(account, txs, date, i) ==
    IF i = 0 THEN Num(0)
    ELSE Add(C2_SumOfEffects(account, txs, date, i - 1),
             IF InCutoff(txs[i], date) THEN C2_Effect(account, txs[i]) ELSE Num(0))

(* C2: an account's balance is its initial balance plus the signed effects *)
(* of the transactions inside the date cutoff: +amount for its incomes,    *)
(* -amount for its expenses and outgoing transfers, +toAmount (else        *)
(* +amount) for transfers coming in from another account, 0 otherwise.     *)
C2_AccountBalanceIsInitialPlusEffects ==
    \A date \in Instants : \A a \in 1..Len(accounts) :
        getAccountBalanceAtDate(accounts[a], transactions, date)
            = Add(accounts[a].initialBalance,
                  C2_SumOfEffects(accounts[a], transactions, date, Len(transactions)))

\* two transactions inside the cutoff touch the same account, one of them an
\* incoming transfer that carries a toAmount
C2_Witness ==
    /\ Len(transactions) = 2
    /\ HasAccount("a1") /\ HasAccount("a2")
    /\ transactions[1].type = "Transfer" /\ transactions[1].toAccountId = "a2"
    /\ transactions[1].toAmount = Num(9)
    /\ transactions[2].type = "Transfer" /\ transactions[2].toAccountId = "a2"
    /\ transactions[2].toAmount = Undefined
    /\ \E date \in Instants :
          /\ InCutoff(transactions[1], date) /\ InCutoff(transactions[2], date)
          /\ getAccountBalanceAtDate(accounts[Find(accounts, "a2")], transactions, date)
                = Num(119)

---------------------------------------------------------------------------
\* the i-th transaction is a transfer from an account to itself
SameAccountTransfer(i) ==
    /\ transactions[i].type = "Transfer"
    /\ transactions[i].accountId = transactions[i].toAccountId

(* C3: a transfer whose source and destination are the same account        *)
(* changes the balance of no account: with or without it in the log every  *)
(* account has the same balance.                                           *)
C3_SameAccountTransferChangesNoBalance ==
    \A i \in 1..Len(transactions) :
        SameAccountTransfer(i) =>
            \A date \in Instants : \A a \in 1..Len(accounts) :
                getAccountBalanceAtDate(accounts[a], transactions, date)
                    = getAccountBalanceAtDate(accounts[a], WithoutTx(transactions, i), date)

(* C4: a transfer whose source and destination are the same account leaves *)
(* the cash balance unchanged, with and without a toAmount.                *)
C4_SameAccountTransferKeepsCashBalance ==
    \A i \in 1..Len(transactions) :
        SameAccountTransfer(i) =>
            \A date \in Instants :
                getCashBalanceAtDate(accounts, transactions, date, settings)
                    = getCashBalanceAtDate(accounts, WithoutTx(transactions, i), date, settings)

---------------------------------------------------------------------------
\* the snapshots C5 is about
C5_WellFormed ==
    /\ \A i \in 1..Len(transactions) :
          LET t == transactions[i]
          IN  /\ HasAccount(t.accountId)
              /\ t.type = "Transfer" =>
                    /\ HasAccount(t.toAccountId)
                    /\ t.accountId # t.toAccountId
                    /\ CurrencyOf(t.accountId) # CurrencyOf(t.toAccountId)
                          => t.toAmount # Undefined
    /\ \A c \in {accounts[a].currency : a \in 1..Len(accounts)} \cup {settings.baseCurrency} :
          /\ c \in DOMAIN settings.exchangeRates
          /\ Gt(settings.exchangeRates[c], Num(0))

\* the i-th transaction is a transfer that records what the destination got
C5_TransferWithToAmount(i) ==
    /\ transactions[i].type = "Transfer"
    /\ transactions[i].toAmount # Undefined

(* C5: in a snapshot whose transactions name existing accounts, whose      *)
(* transfers have distinct ends, whose currencies have positive rates and  *)
(* whose cross-currency transfers carry a toAmount d, a transfer lowers    *)
(* the source balance by amount and raises the destination balance by d,   *)
(* each in its own currency, and the cash balance is the sum of the        *)
(* converted account balances.                                             *)
C5_CrossCurrencyTransfer ==
    C5_WellFormed =>
        /\ \A date \in Instants :
              getCashBalanceAtDate(accounts, transactions, date, settings)
                = SumOfConvertedBalances(accounts, transactions, date, settings, Len(accounts))
        /\ \A i \in 1..Len(transactions) : \A date \in Instants :
              C5_TransferWithToAmount(i) /\ InCutoff(transactions[i], date) =>
                LET t == transactions[i]
                    src == accounts[Find(accounts, t.accountId)]
                    dst == accounts[Find(accounts, t.toAccountId)]
                    rest == WithoutTx(transactions, i)
                IN  /\ getAccountBalanceAtDate(src, transactions, date)
                          = Sub(getAccountBalanceAtDate(src, rest, date), t.amount)
                    /\ getAccountBalanceAtDate(dst, transactions, date)
                          = Add(getAccountBalanceAtDate(dst, rest, date), t.toAmount)

\* 10 USD leave a1 and 9 MYR reach a2; in USD the cash balance is then
\* 90 + 100/4.7 + 9/4.7, which is not what it was before the transfer
C5_Witness ==
    /\ C5_WellFormed
    /\ settings.baseCurrency = "USD"
    /\ Len(transactions) = 1 /\ C5_TransferWithToAmount(1)
    /\ CurrencyOf("a1") = "USD" /\ CurrencyOf("a2") = "MYR"
    /\ \E date \in Instants :
          /\ InCutoff(transactions[1], date)
          /\ getCashBalanceAtDate(accounts, transactions, date, settings) = Fin(5320, 47)
          /\ getCashBalanceAtDate(accounts, <<>>, date, settings) = Fin(5700, 47)

---------------------------------------------------------------------------
\* an instant after every recorded transaction, in every time zone
EndOfTime == [h |-> 1920, ms |-> 0]

\* the transactions whose calendar date is in month m or earlier
DatedUpToMonth(txs, m) ==
    LET keep(t) == t.date.m <= m
    IN  SelectSeq(txs, keep)

(* C6: the balances at an instant are those made of exactly the            *)
(* transactions whose calendar date is on or before the last day of the    *)
(* calendar month of the instant; a transaction dated in a later month     *)
(* never contributes.                                                      *)
C6_CutoffIsEndOfCalendarMonth ==
    \A date \in Instants :
        LET dated == DatedUpToMonth(transactions, LocalMonth(date))
        IN  /\ getCashBalanceAtDate(accounts, transactions, date, settings)
                  = getCashBalanceAtDate(accounts, dated, EndOfTime, settings)
            /\ \A a \in 1..Len(accounts) :
                  getAccountBalanceAtDate(accounts[a], transactions, date)
                    = getAccountBalanceAtDate(accounts[a], dated, EndOfTime)

---------------------------------------------------------------------------
\* the i-th transaction moves its amount between two different accounts and
\* records no toAmount
C7_PlainTransfer(i) ==
    /\ transactions[i].type = "Transfer"
    /\ transactions[i].toAmount = Undefined
    /\ transactions[i].toAccountId # NoAccount
    /\ transactions[i].toAccountId # transactions[i].accountId

---------------------------------------------------------------------------
\* the currency codes and amounts convertCurrency is called with; EUR never
\* has a rate
CurrencyCodes == {"USD", "MYR", "IDR", "EUR"}

\* the codes of the initial rate table
StoredCurrencies == DOMAIN DEFAULT_SETTINGS.exchangeRates

ConvertedAmounts == {Num(0), Num(10), Fin(-5, 2)}

(* C8: convertCurrency returns the amount itself when from equals to, also *)
(* for a code without a rate; otherwise, with both codes in the table, the *)
(* result r is the number with r * rates[from] = amount * rates[to], and   *)
(* with a code missing it is what the arithmetic on undefined gives, NaN.  *)
C8_ConvertCurrency ==
    \A amount \in ConvertedAmounts : \A from \in CurrencyCodes : \A to \in CurrencyCodes :
        LET rates == settings.exchangeRates
            r == convertCurrency(amount, from, to, rates)
        IN  /\ from = to => r = amount
            /\ from # to /\ from \in DOMAIN rates /\ to \in DOMAIN rates /\ Truthy(rates[from])
                  => IsFinite(r) /\ Mul(r, rates[from]) = Mul(amount, rates[to])
            /\ from # to /\ (from \notin DOMAIN rates \/ to \notin DOMAIN rates)
                  => r = NaN

\* MYR has lost its rate: MYR to MYR is still the identity, and 10 USD are
\* 155000 IDR
C8_Witness ==
    /\ "MYR" \notin DOMAIN settings.exchangeRates
    /\ "IDR" \in DOMAIN settings.exchangeRates
    /\ convertCurrency(Num(10), "MYR", "MYR", settings.exchangeRates) = Num(10)
    /\ convertCurrency(Num(10), "USD", "IDR", settings.exchangeRates) = Num(155000)

---------------------------------------------------------------------------
\* what a call of a JavaScript function that does not throw evaluates to
IsNumber(x) == x.k \in {"fin", "inf", "nan"}

(* C9: converting between two different codes of which one has no rate     *)
(* ends in an UnknownCurrency error, never in a number or NaN.             *)
C9_UnknownCurrencyIsAnError ==
    \A amount \in ConvertedAmounts : \A from \in StoredCurrencies : \A to \in StoredCurrencies :
        LET rates == settings.exchangeRates
        IN  from # to /\ (from \notin DOMAIN rates \/ to \notin DOMAIN rates)
              => ~IsNumber(convertCurrency(amount, from, to, rates))

---------------------------------------------------------------------------
\* folding t at this instant looks up the rate of a currency that has none
C10_RateMissingFor(t, date) ==
    /\ InCutoff(t, date)
    /\ HasAccount(t.accountId)
    /\ \/ CurrencyOf(t.accountId) \notin DOMAIN settings.exchangeRates
       \/ settings.baseCurrency \notin DOMAIN settings.exchangeRates
       \/ /\ t.type = "Transfer" /\ t.toAmount # Undefined
          /\ HasAccount(t.toAccountId)
          /\ CurrencyOf(t.toAccountId) \notin DOMAIN settings.exchangeRates

(* C10: when the cash balance folds a transaction whose account currency,  *)
(* or the base currency, has no rate, the caller does not get a finite     *)
(* amount computed with rate 1.                                            *)
C10_MissingRateIsSurfaced ==
    \A date \in Instants :
        (\E i \in 1..Len(transactions) : C10_RateMissingFor(transactions[i], date))
            => ~IsFinite(getCashBalanceAtDate(accounts, transactions, date, settings))

---------------------------------------------------------------------------
\* t names an account that is not in the accounts collection, as its source
\* or as the destination of a transfer
C11_Dangling(t) ==
    \/ ~HasAccount(t.accountId)
    \/ t.type = "Transfer" /\ ~HasAccount(t.toAccountId)

(* C11: a transaction that references an account id missing from the       *)
(* accounts contributes nothing: with or without it in the log the cash    *)
(* balance and the balance of every account are the same.                  *)
C11_DanglingReferenceContributesNothing ==
    \A i \in 1..Len(transactions) :
        C11_Dangling(transactions[i]) =>
            \A date \in Instants :
                /\ getCashBalanceAtDate(accounts, transactions, date, settings)
                      = getCashBalanceAtDate(accounts, WithoutTx(transactions, i), date, settings)
                /\ \A a \in 1..Len(accounts) :
                      getAccountBalanceAtDate(accounts[a], transactions, date)
                          = getAccountBalanceAtDate(accounts[a], WithoutTx(transactions, i), date)

---------------------------------------------------------------------------
(* C12: the net worth at an instant is the cash balance at that instant    *)
(* plus the total value of the portfolio, and the portfolio term does not  *)
(* depend on the instant: between any two instants the net worth differs   *)
(* by exactly the difference of the cash balances.                         *)
C12_NetWorthIsCashPlusPortfolio ==
    \A d1 \in Instants : \A d2 \in Instants :
        LET nw1 == getNetWorthAtDate(accounts, transactions, portfolio, d1, settings)
            nw2 == getNetWorthAtDate(accounts, transactions, portfolio, d2, settings)
            cash1 == getCashBalanceAtDate(accounts, transactions, d1, settings)
            cash2 == getCashBalanceAtDate(accounts, transactions, d2, settings)
        IN  /\ nw1 = Add(cash1, calculatePortfolioStats(portfolio, settings).totalValue)
            /\ Sub(nw1, nw2) = Sub(cash1, cash2)

\* a holding is worth something and the cash balance differs between two
\* instants, so does the net worth, by the same 10 USD in IDR
C12_Witness ==
    /\ Len(portfolio) > 0
    /\ settings.baseCurrency = "IDR"
    /\ IsFinite(calculatePortfolioStats(portfolio, settings).totalValue)
    /\ Gt(calculatePortfolioStats(portfolio, settings).totalValue, Num(0))
    /\ \E d1 \in Instants : \E d2 \in Instants :
          /\ Sub(getCashBalanceAtDate(accounts, transactions, d1, settings),
                 getCashBalanceAtDate(accounts, transactions, d2, settings)) = Num(155000)
          /\ Sub(getNetWorthAtDate(accounts, transactions, portfolio, d1, settings),
                 getNetWorthAtDate(accounts, transactions, portfolio, d2, settings)) = Num(155000)

---------------------------------------------------------------------------
\* sum over the holdings of the cost basis converted from the holding's
\* currency to the base currency
RECURSIVE C13_SumOfCosts(_, _, _)
C13_SumOfCosts(pf, st, i) ==
    IF i = 0 THEN Num(0)
    ELSE Add(C13_SumOfCosts(pf, st, i - 1),
             convertCurrency(pf[i].costBasis, pf[i].currency,
                             st.baseCurrency, st.exchangeRates))

\* sum over the holdings of quantity * currentPrice converted to the base
\* currency
RECURSIVE C13_SumOfValues(_, _, _)
C13_SumOfValues(pf, st, i) ==
    IF i = 0 THEN Num(0)
    ELSE Add(C13_SumOfValues(pf, st, i - 1),
             convertCurrency(Mul(pf[i].quantity, pf[i].currentPrice), pf[i].currency,
                             st.baseCurrency, st.exchangeRates))

(* C13: calculatePortfolioStats returns as totalCost the sum of the        *)
(* converted cost bases, as totalValue the sum of the converted market     *)
(* values quantity * currentPrice, as totalGainLoss their difference, and  *)
(* the Portfolio page shows the same three totals.                         *)
C13_PortfolioTotals ==
    LET stats == calculatePortfolioStats(portfolio, settings)
        page == PortfolioPageTotals(portfolio, settings)
    IN  /\ stats.totalCost = C13_SumOfCosts(portfolio, settings, Len(portfolio))
        /\ stats.totalValue = C13_SumOfValues(portfolio, settings, Len(portfolio))
        /\ stats.totalGainLoss = Sub(stats.totalValue, stats.totalCost)
        /\ page.totalCost = stats.totalCost
        /\ page.totalValue = stats.totalValue
        /\ page.totalGainLoss = stats.totalGainLoss

\* a USD and a MYR holding, each 2 units bought at 5 and priced at 25, in
\* USD: cost 10 + 10/4.7, value 50 + 50/4.7
C13_Witness ==
    /\ Len(portfolio) = 2
    /\ portfolio[1].currency = "USD" /\ portfolio[2].currency = "MYR"
    /\ settings.baseCurrency = "USD"
    /\ calculatePortfolioStats(portfolio, settings).totalCost = Fin(570, 47)
    /\ calculatePortfolioStats(portfolio, settings).totalValue = Fin(2850, 47)
    /\ PortfolioPageTotals(portfolio, settings).totalGainLoss = Fin(2280, 47)

---------------------------------------------------------------------------
(* C14: totalGainLossPercent is totalGainLoss / totalCost * 100 when the   *)
(* total cost is greater than 0, and exactly 0 when the total cost is zero *)
(* or negative, whatever the total value is.                               *)
C14_GainLossPercentGuard ==
    LET stats == calculatePortfolioStats(portfolio, settings)
    IN  IF Gt(stats.totalCost, Num(0))
        THEN /\ stats.totalGainLossPercent
                   = Mul(Div(stats.totalGainLoss, stats.totalCost), Num(100))
             /\ IsFinite(stats.totalCost) /\ IsFinite(stats.totalGainLoss)
                   => Mul(Div(stats.totalGainLossPercent, Num(100)), stats.totalCost)
                         = stats.totalGainLoss
        ELSE stats.totalGainLossPercent = Num(0)

\* a holding bought at 0 that is worth 50: the percentage is 0
C14_Witness ==
    /\ Len(portfolio) = 1
    /\ portfolio[1].costBasis = Num(0)
    /\ calculatePortfolioStats(portfolio, settings).totalCost = Num(0)
    /\ Gt(calculatePortfolioStats(portfolio, settings).totalValue, Num(0))
    /\ calculatePortfolioStats(portfolio, settings).totalGainLossPercent = Num(0)

---------------------------------------------------------------------------
(* C15: calculatePercentageChange returns 0 whenever previous is 0, and    *)
(* for every other previous, negative ones included, the quotient          *)
(* (current - previous) / previous times 100.                              *)
C15_PercentageChange ==
    call.fn = "calculatePercentageChange" =>
        IF call.previous = Num(0)
        THEN call.result = Num(0)
        ELSE /\ call.result
                   = Mul(Div(Sub(call.current, call.previous), call.previous), Num(100))
             /\ IsFinite(call.current) /\ IsFinite(call.previous)
                   => /\ IsFinite(call.result)
                      /\ Mul(Div(call.result, Num(100)), call.previous)
                            = Sub(call.current, call.previous)

\* from -4 to 10 is a change of -350 percent
C15_Witness ==
    /\ call.fn = "calculatePercentageChange"
    /\ call.previous = Num(-4)
    /\ call.current = Num(10)
    /\ call.result = Num(-350)

---------------------------------------------------------------------------
(* C16: for every amount and any two currencies of the rate table whose    *)
(* rates are not zero, converting from the one to the other and back gives *)
(* the amount again.                                                       *)
C16_ConversionRoundTrip ==
    LET rates == settings.exchangeRates
    IN  \A amount \in ConvertedAmounts : \A a \in DOMAIN rates : \A b \in DOMAIN rates :
            rates[a] # Num(0) /\ rates[b] # Num(0)
                => convertCurrency(convertCurrency(amount, a, b, rates), b, a, rates) = amount

\* EUR was added and the MYR rate edited to -2: 10 MYR are -5 EUR, and -5 EUR
\* are 10 MYR again
C16_Witness ==
    /\ "EUR" \in DOMAIN settings.exchangeRates
    /\ "MYR" \in DOMAIN settings.exchangeRates
    /\ settings.exchangeRates["MYR"] = Num(-2)
    /\ convertCurrency(Num(10), "MYR", "EUR", settings.exchangeRates) = Num(-5)
    /\ convertCurrency(Num(-5), "EUR", "MYR", settings.exchangeRates) = Num(10)

---------------------------------------------------------------------------
(* C18: every rate of the rate table is strictly positive.                 *)
C18_RatesArePositive ==
    \A c \in DOMAIN settings.exchangeRates : Gt(settings.exchangeRates[c], Num(0))

---------------------------------------------------------------------------
(* C19: the rate table always has the anchor currency USD, with rate       *)
(* exactly 1.                                                              *)
C19_AnchorIsOne ==
    /\ "USD" \in DOMAIN settings.exchangeRates
    /\ settings.exchangeRates["USD"] = Num(1)

\* MYR was deleted, EUR added, the IDR rate edited to 0 and the base currency
\* changed: USD is still there at 1
C19_Witness ==
    /\ "MYR" \notin DOMAIN settings.exchangeRates
    /\ "EUR" \in DOMAIN settings.exchangeRates
    /\ "IDR" \in DOMAIN settings.exchangeRates
    /\ settings.exchangeRates["IDR"] = Num(0)
    /\ settings.baseCurrency = "EUR"
    /\ settings.exchangeRates["USD"] = Num(1)

---------------------------------------------------------------------------
(* C17: the currency of every stored account and of every stored holding   *)
(* has an entry in the rate table.                                         *)
C17_StoredCurrenciesHaveRates ==
    /\ \A i \in 1..Len(accounts) : accounts[i].currency \in DOMAIN settings.exchangeRates
    /\ \A i \in 1..Len(portfolio) : portfolio[i].currency \in DOMAIN settings.exchangeRates

---------------------------------------------------------------------------
(* C20: every Transfer that the TransactionForm has put into the store has *)
(* a destination account, and it is not the source account.                *)
C20_SubmittedTransferHasOtherDestination ==
    \A i \in 1..Len(transactions) :
        transactions[i].type = "Transfer" =>
            /\ transactions[i].toAccountId # NoAccount
            /\ transactions[i].toAccountId # transactions[i].accountId

---------------------------------------------------------------------------
(* C29: the base currency and the rate table on the Settings page.         *)

\* C29: in every state reachable through the Settings page (change of base
\* currency, adding, editing and deleting rates) and resetData, the base
\* currency is a key of the rate table.
C29_BaseCurrencyHasRate ==
    settings.baseCurrency \in DOMAIN settings.exchangeRates

---------------------------------------------------------------------------
(* C26: the balance shown on the Accounts page and the dated balance of    *)
(* utils/financeCalculations.ts.                                           *)

\* the older copy of the page: an incoming transfer is credited with amount
AccountsPageTxAmount_OlderCopy(account, t) ==
    IF t.type = "Income" /\ t.accountId = account.id THEN t.amount
    ELSE IF t.type = "Expense" /\ t.accountId = account.id THEN Neg(t.amount)
    ELSE IF t.type = "Transfer"
         THEN IF t.accountId = account.id THEN Neg(t.amount)
              ELSE IF t.toAccountId = account.id THEN t.amount
                   ELSE Num(0)
    ELSE Num(0)

\* Accounts page, the body of the reduce: the contribution of one transaction
AccountsPageTxAmount(account, t) ==
    IF t.type = "Income" /\ t.accountId = account.id THEN t.amount
    ELSE IF t.type = "Expense" /\ t.accountId = account.id THEN Neg(t.amount)
    ELSE IF t.type = "Transfer"
         THEN IF t.accountId = account.id THEN Neg(t.amount)
              ELSE IF t.toAccountId = account.id
                   THEN (IF t.toAmount # Undefined THEN t.toAmount ELSE t.amount)
                   ELSE Num(0)
    ELSE Num(0)

\* Accounts page: accountTransactions.reduce over the transactions the account
\* is the source or the destination of; there is no date filter
RECURSIVE AccountsPageTotal(_, _, _)
AccountsPageTotal(account, txs, i) ==
    IF i = 0 THEN Num(0)
    ELSE IF txs[i].accountId = account.id \/ txs[i].toAccountId = account.id
         THEN Add(AccountsPageTotal(account, txs, i - 1),
                  AccountsPageTxAmount(account, txs[i]))
         ELSE AccountsPageTotal(account, txs, i - 1)

\* Accounts page: getAccountBalance
getAccountBalance(account, txs) ==
    Add(account.initialBalance, AccountsPageTotal(account, txs, Len(txs)))

\* no transaction carries a calendar date after the end of the month of `now`
C26_NoneAfterCurrentMonth(now) ==
    \A i \in 1..Len(transactions) : transactions[i].date.m <= LocalMonth(now)

---------------------------------------------------------------------------
(* The store under the calls of the Accounts and Transactions pages:       *)
(* accounts and transactions are added, edited and removed in any order;   *)
(* every transaction that is added or edited names accounts that exist at  *)
(* the time of the call.                                                   *)

\* account ids handed out by uuidv4() to the accounts of this ledger
StoreAccountIds == {"a1", "a2", "a3"}

StoreIdRank == [id \in StoreAccountIds |-> IF id = "a1" THEN 1 ELSE IF id = "a2" THEN 2 ELSE 3]

\* transaction ids handed out by uuidv4(), numbered in the order they are handed out
TxIds == 1..MaxTx

\* what TransactionForm.handleSubmit passes on: an expense of an account or a
\* transfer between two accounts
StoreTxData ==
    [type : {"Expense"}, accountId : StoreAccountIds, toAccountId : {NoAccount},
     amount : {Num(10)}, toAmount : {Undefined}, date : TxDates]
    \cup
    [type : {"Transfer"}, accountId : StoreAccountIds, toAccountId : StoreAccountIds,
     amount : {Num(10)}, toAmount : {Undefined}, date : TxDates]

\* the account ids a transaction refers to exist
RefersToExisting(t) ==
    /\ HasAccount(t.accountId)
    /\ t.toAccountId # NoAccount => HasAccount(t.toAccountId)

\* AccountForm.handleSubmit without initialData
AddStoreAccount ==
    \E id \in StoreAccountIds : \E currency \in AccountCurrencies :
        /\ \A i \in 1..Len(accounts) : StoreIdRank[accounts[i].id] < StoreIdRank[id]
        /\ addAccount([id |-> id, currency |-> currency, initialBalance |-> Num(100)])

\* Accounts.handleDelete of a listed account
DeleteAccount == \E k \in 1..Len(accounts) : removeAccount(accounts[k].id)

\* TransactionForm.handleSubmit without initialData: a fresh uuid
AddStoreTransaction ==
    \E id \in TxIds : \E t \in StoreTxData :
        /\ RefersToExisting(t)
        /\ \A i \in 1..Len(transactions) : transactions[i].id < id
        /\ addTransaction([id |-> id] @@ t)

\* TransactionForm.handleSubmit with initialData
UpdateStoreTransaction ==
    \E i \in 1..Len(transactions) : \E t \in StoreTxData :
        /\ RefersToExisting(t)
        /\ updateTransaction(transactions[i].id, t)

\* Transactions.handleDelete
RemoveTransaction == \E i \in 1..Len(transactions) : removeTransaction(transactions[i].id)

\* the holdings the store holds besides the ledger
PortfolioSnapshots ==
    {<<>>,
     <<[id |-> 1, quantity |-> Num(2), costBasis |-> Num(10),
        currentPrice |-> Num(25), currency |-> "USD"]>>}

InitStore ==
    /\ accounts = <<>>
    /\ transactions = <<>>
    /\ portfolio \in PortfolioSnapshots
    /\ settings = DEFAULT_SETTINGS
    /\ tz \in TimeZones
    /\ txForm = FormClosed
    /\ call = NoCall
    /\ dashboard = DashboardUnmounted

NextStore ==
    \/ AddStoreAccount
    \/ DeleteAccount
    \/ EditAccount
    \/ AddStoreTransaction
    \/ UpdateStoreTransaction
    \/ RemoveTransaction

SpecStore == InitStore /\ [][NextStore]_vars

---------------------------------------------------------------------------
(* C25: what removeAccount removes and what it keeps.                      *)

\* the entries of seq for which drop is FALSE, in their order; drop is a
\* sequence of booleans as long as seq
RECURSIVE C25_Kept(_, _, _)
C25_Kept(seq, drop, i) ==
    IF i = 0 THEN <<>>
    ELSE IF drop[i] THEN C25_Kept(seq, drop, i - 1)
         ELSE Append(C25_Kept(seq, drop, i - 1), seq[i])

C25_AfterRemoval(id) ==
    /\ \A k \in 1..Len(accounts') : accounts'[k].id # id
    /\ \A i \in 1..Len(transactions') :
          transactions'[i].accountId # id /\ transactions'[i].toAccountId # id
    /\ accounts' = C25_Kept(accounts,
                            [k \in 1..Len(accounts) |-> accounts[k].id = id],
                            Len(accounts))
    /\ transactions' = C25_Kept(transactions,
                                [i \in 1..Len(transactions) |->
                                    \/ transactions[i].accountId = id
                                    \/ transactions[i].toAccountId = id],
                                Len(transactions))
    /\ portfolio' = portfolio
    /\ settings' = settings

\* C25: after removeAccount(id) no account has that id and no transaction has
\* it as accountId or toAccountId; every other account and transaction is kept
\* in its original relative order; portfolio and settings are unchanged.
C25_RemoveAccountCascades ==
    [][\A id \in StoreAccountIds : removeAccount(id) => C25_AfterRemoval(id)]_vars

\* a ledger in which a removal has something to drop and something to keep:
\* account a2 is the destination of a transfer from a1, another transaction
\* does not touch a2, a1 and a3 exist and a holding is stored
C25_Witness ==
    /\ HasAccount("a1") /\ HasAccount("a2") /\ HasAccount("a3")
    /\ portfolio # <<>>
    /\ \E i, j \in 1..Len(transactions) :
          /\ transactions[i].toAccountId = "a2" /\ transactions[i].accountId = "a1"
          /\ transactions[j].accountId # "a2" /\ transactions[j].toAccountId # "a2"

---------------------------------------------------------------------------
(* C30: referential integrity of the ledger.                               *)

\* C30: from the empty store, when every added or edited transaction names
\* accounts that exist at the time of the call and no account edit changes an
\* id, every stored transaction's accountId and non-empty toAccountId refer to
\* an existing account.
C30_TransactionsReferToAccounts ==
    \A i \in 1..Len(transactions) : RefersToExisting(transactions[i])

\* a transfer between two existing accounts is stored while an account with a
\* lower-ranked id is gone
C30_Witness ==
    /\ ~HasAccount("a1")
    /\ HasAccount("a2") /\ HasAccount("a3")
    /\ \E i \in 1..Len(transactions) :
          transactions[i].type = "Transfer" /\ transactions[i].toAccountId = "a3"

---------------------------------------------------------------------------
(* The TransactionForm with and without initialData: new transactions are  *)
(* submitted and stored transactions are edited, over a fixed pair of      *)
(* accounts; the amount is left at its initial 0, so a converted amount is *)
(* never estimated and only comes from the Converted Amount input.         *)

\* the accounts the store holds when the Transactions page is opened: two
\* accounts of different currencies, or two accounts of the same currency
FormAccountSnapshots ==
    {<<[id |-> "a1", currency |-> "USD", initialBalance |-> Num(100)],
       [id |-> "a2", currency |-> c, initialBalance |-> Num(100)]>> :
        c \in AccountCurrencies}

InitTxEdit ==
    /\ accounts \in FormAccountSnapshots
    /\ transactions = <<>>
    /\ portfolio = <<>>
    /\ settings = DEFAULT_SETTINGS
    /\ tz \in TimeZones
    /\ txForm = FormClosed
    /\ call = NoCall
    /\ dashboard = DashboardUnmounted

\* the form is mounted without initialData
OpenNewTransactionForm == OpenTransactionForm

\* the form is mounted with initialData = a stored transaction: useState takes
\* its fields with the || defaults, the first effect then sets them as they
\* are, and the cross-currency effect runs on the result
OpenTransactionFormWithInitialData ==
    \E i \in 1..Len(transactions) :
        LET initialData == transactions[i]
        IN  /\ ~txForm.open
            /\ Len(accounts) > 0
            /\ setFormData([open |-> TRUE,
                            type |-> initialData.type,
                            accountId |-> initialData.accountId,
                            toAccountId |-> initialData.toAccountId,
                            amount |-> initialData.amount,
                            toAmount |-> initialData.toAmount,
                            isCrossCurrency |-> FALSE,
                            initialData |-> initialData])

\* mutant: the toAmount of the form is submitted as it is
handleSubmit_KeepsFormToAmount ==
    \E date \in TxDates : \E id \in TxIds :
        LET transactionData ==
                [type |-> txForm.type,
                 accountId |-> txForm.accountId,
                 toAccountId |-> txForm.toAccountId,
                 amount |-> OrElse(txForm.amount, Num(0)),
                 toAmount |-> txForm.toAmount,
                 date |-> date]
        IN  /\ txForm.open
            /\ IF "initialData" \in DOMAIN txForm
               THEN /\ id = txForm.initialData.id
                    /\ transactions' =
                           [k \in 1..Len(transactions) |->
                               IF transactions[k].id = id
                               THEN [id |-> id] @@ transactionData
                               ELSE transactions[k]]
               ELSE /\ Len(transactions) < MaxSubmitted
                    /\ \A k \in 1..Len(transactions) : transactions[k].id < id
                    /\ transactions' = Append(transactions, [id |-> id] @@ transactionData)
            /\ txForm' = FormClosed
            /\ UNCHANGED <<accounts, settings, tz, portfolio, call, dashboard>>

\* handleSubmit: updateTransaction(initialData.id, transactionData) with
\* initialData, addTransaction(transactionData) with a fresh uuid without;
\* then onClose
handleSubmit ==
    \E date \in TxDates : \E id \in TxIds :
        LET transactionData ==
                [type |-> txForm.type,
                 accountId |-> txForm.accountId,
                 toAccountId |-> txForm.toAccountId,
                 amount |-> OrElse(txForm.amount, Num(0)),
                 toAmount |-> IF txForm.isCrossCurrency
                              THEN OrElse(txForm.toAmount, Num(0))
                              ELSE Undefined,
                 date |-> date]
        IN  /\ txForm.open
            /\ IF "initialData" \in DOMAIN txForm
               THEN /\ id = txForm.initialData.id
                    /\ transactions' =
                           [k \in 1..Len(transactions) |->
                               IF transactions[k].id = id
                               THEN [id |-> id] @@ transactionData
                               ELSE transactions[k]]
               ELSE /\ Len(transactions) < MaxSubmitted
                    /\ \A k \in 1..Len(transactions) : transactions[k].id < id
                    /\ transactions' = Append(transactions, [id |-> id] @@ transactionData)
            /\ txForm' = FormClosed
            /\ UNCHANGED <<accounts, settings, tz, portfolio, call, dashboard>>

NextTxEdit ==
    \/ OpenNewTransactionForm
    \/ OpenTransactionFormWithInitialData
    \/ SelectType
    \/ SelectAccount
    \/ SelectToAccount
    \/ EnterToAmount
    \/ handleSubmit

SpecTxEdit == InitTxEdit /\ [][NextTxEdit]_vars

---------------------------------------------------------------------------
(* C27: which submitted transactions carry a toAmount.                     *)

\* the form shows a Transfer whose source and destination both exist and
\* have different currencies
C27_FormIsCrossCurrencyTransfer ==
    /\ txForm.type = "Transfer"
    /\ HasAccount(txForm.accountId)
    /\ HasAccount(txForm.toAccountId)
    /\ CurrencyOf(txForm.accountId) # CurrencyOf(txForm.toAccountId)

\* the transaction a submission has written: the edited one, or the last one
C27_Submitted ==
    IF "initialData" \in DOMAIN txForm
    THEN transactions'[CHOOSE k \in 1..Len(transactions') :
                           transactions'[k].id = txForm.initialData.id]
    ELSE transactions'[Len(transactions')]

\* C27: a transaction submitted by the TransactionForm carries a defined
\* toAmount exactly when, at the submission, the form shows a Transfer whose
\* source and destination both exist and have different currencies; this holds
\* for new transactions and for edits of a transaction that had a toAmount.
C27_ToAmountIffCrossCurrency ==
    [][transactions' # transactions =>
          ((C27_Submitted.toAmount # Undefined) <=> C27_FormIsCrossCurrencyTransfer)]_vars

\* a stored transfer that carries a toAmount is open in the form and the form
\* no longer shows a cross-currency transfer
C27_Witness ==
    /\ txForm.open
    /\ "initialData" \in DOMAIN txForm
    /\ txForm.initialData.toAmount # Undefined
    /\ ~C27_FormIsCrossCurrencyTransfer

---------------------------------------------------------------------------
(* The calculation functions as the Dashboard calls them: each call reads  *)
(* the store and returns a value.                                          *)

InitEngine ==
    /\ \E ledger \in LedgerSnapshots :
          accounts = ledger[1] /\ transactions = ledger[2]
    /\ portfolio \in PortfolioSnapshots
    /\ settings = DEFAULT_SETTINGS
    /\ tz \in TimeZones
    /\ txForm = FormClosed
    /\ call = NoCall
    /\ dashboard = DashboardUnmounted

CallCalculatePortfolioStats ==
    /\ call' = [fn |-> "calculatePortfolioStats",
                result |-> calculatePortfolioStats(portfolio, settings)]
    /\ UNCHANGED <<accounts, transactions, settings, tz, portfolio, txForm, dashboard>>

CallGetCashBalanceAtDate ==
    \E date \in Instants :
        /\ call' = [fn |-> "getCashBalanceAtDate", date |-> date,
                    result |-> getCashBalanceAtDate(accounts, transactions, date, settings)]
        /\ UNCHANGED <<accounts, transactions, settings, tz, portfolio, txForm, dashboard>>

CallGetAccountBalanceAtDate ==
    \E k \in 1..Len(accounts) : \E date \in Instants :
        /\ call' = [fn |-> "getAccountBalanceAtDate", date |-> date,
                    result |-> getAccountBalanceAtDate(accounts[k], transactions, date)]
        /\ UNCHANGED <<accounts, transactions, settings, tz, portfolio, txForm, dashboard>>

\* mutant: the call empties the portfolio it was given
CallGetNetWorthAtDate_ClearsPortfolio ==
    \E date \in Instants :
        /\ call' = [fn |-> "getNetWorthAtDate", date |-> date,
                    result |-> getNetWorthAtDate(accounts, transactions, portfolio,
                                                 date, settings)]
        /\ portfolio' = <<>>
        /\ UNCHANGED <<accounts, transactions, settings, tz, txForm, dashboard>>

CallGetNetWorthAtDate ==
    \E date \in Instants :
        /\ call' = [fn |-> "getNetWorthAtDate", date |-> date,
                    result |-> getNetWorthAtDate(accounts, transactions, portfolio,
                                                 date, settings)]
        /\ UNCHANGED <<accounts, transactions, settings, tz, portfolio, txForm, dashboard>>

\* the amounts that are converted
ConvertInputs == {Num(0), Num(10), Num(-4)}

CallConvertCurrency ==
    \E amount \in ConvertInputs : \E from \in AccountCurrencies :
        /\ call' = [fn |-> "convertCurrency", current |-> amount, from |-> from,
                    result |-> convertCurrency(amount, from, settings.baseCurrency,
                                               settings.exchangeRates)]
        /\ UNCHANGED <<accounts, transactions, settings, tz, portfolio, txForm, dashboard>>

NextEngine ==
    \/ CallCalculatePortfolioStats
    \/ CallGetCashBalanceAtDate
    \/ CallGetAccountBalanceAtDate
    \/ CallGetNetWorthAtDate
    \/ CallPercentageChange
    \/ CallConvertCurrency
    \/ ChangeBaseCurrency

SpecEngine == InitEngine /\ [][NextEngine]_vars

---------------------------------------------------------------------------
(* C24: the calculation functions leave their inputs alone.                *)

---------------------------------------------------------------------------
(* pages/Dashboard.tsx: the selected month, the comparison mode and the    *)
(* values derived from them.  Only allocationData is kept as state: it is  *)
(* the one memoized value whose dependency list leaves out an input, so    *)
(* every other derived value is the function of the current state that     *)
(* its definition says.                                                    *)

\* new Date() while the page is used: 2024-03-15T12:00Z
Today == [h |-> 24 * (DaysBefore(3) + 14) + 12, ms |-> 0]

\* the months of the dropdown: the month of today and the 23 months before it
months == {LocalMonth(Today) - k : k \in 0..23}

\* new Date(y, m + 1, 0) with y and m the local year and month of
\* new Date(selectedMonth + '-01'): local midnight of the last day of that
\* local month
selectedDate(selectedMonth) ==
    LET month == LocalMonth(NewDate([m |-> selectedMonth, d |-> 1]))
    IN  [h |-> 24 * (DaysBefore(month + 1) - 1) - tz, ms |-> 0]

\* date-fns subMonths: the same local day and time of day `amount` months
\* earlier, the day clamped to the length of that month
subMonths(date, amount) ==
    LET month == LocalMonth(date)
        dayOfMonth == LocalDay(date) - DaysBefore(month) + 1
        desired == month - amount
        daysInMonth == DaysInMonth(desired)
        day == IF dayOfMonth >= daysInMonth THEN daysInMonth ELSE dayOfMonth
        timeOfDay == (date.h + tz) % 24
    IN  [h |-> 24 * (DaysBefore(desired) + day - 1) + timeOfDay - tz, ms |-> date.ms]

\* date-fns subYears
subYears(date, amount) == subMonths(date, 12 * amount)

comparisonDate(percentageMode, date) ==
    IF percentageMode = "MoM" THEN subMonths(date, 1) ELSE subYears(date, 1)

\* map.set(name, (map.get(name) || 0) + value) on a Map kept in insertion order
MapAdd(map, name, value) ==
    IF \E k \in 1..Len(map) : map[k].name = name
    THEN [k \in 1..Len(map) |->
             IF map[k].name = name
             THEN [name |-> name, value |-> Add(OrElse(map[k].value, Num(0)), value)]
             ELSE map[k]]
    ELSE Append(map, [name |-> name, value |-> Add(Num(0), value)])

\* accounts.forEach of allocationData
RECURSIVE TypeMap(_, _, _, _, _)
TypeMap(accs, txs, date, st, i) ==
    IF i = 0 THEN <<>>
    ELSE LET bal == getAccountBalanceAtDate(accs[i], txs, date)
             balInBase == convertCurrency(bal, accs[i].currency, st.baseCurrency,
                                          st.exchangeRates)
         IN  MapAdd(TypeMap(accs, txs, date, st, i - 1), accs[i].type, balInBase)

\* the body of the allocationData memo
allocationData(accs, txs, date, st, totalValue) ==
    LET typeMap == TypeMap(accs, txs, date, st, Len(accs))
    IN  IF Gt(totalValue, Num(0))
        THEN MapAdd(typeMap, "Stock Portfolio", totalValue)
        ELSE typeMap

\* the forEach of categoryAllocationData over the expenses of the window
RECURSIVE CategoryMap(_, _, _, _, _)
CategoryMap(accs, txs, month, st, i) ==
    IF i = 0 THEN <<>>
    ELSE LET map == CategoryMap(accs, txs, month, st, i - 1)
             t == txs[i]
             account == Find(accs, t.accountId)
         IN  IF ~(t.type = "Expense" /\ t.date.m = month) THEN map
             ELSE IF account = 0 THEN map
             ELSE LET rate == OrElse(Rate(st.exchangeRates, accs[account].currency), Num(1))
                      baseRate == OrElse(Rate(st.exchangeRates, st.baseCurrency), Num(1))
                      amountInBase == Mul(Div(t.amount, rate), baseRate)
                      category == IF t.category = "" THEN "Uncategorized" ELSE t.category
                  IN  MapAdd(map, category, amountInBase)

\* Array.prototype.sort with (a, b) => b.value - a.value: a stable sort by
\* non-increasing value
RECURSIVE SortByValue(_, _)
SortByValue(seq, i) ==
    IF i = 0 THEN <<>>
    ELSE LET sorted == SortByValue(seq, i - 1)
             x == seq[i]
             before == SelectSeq(sorted, LAMBDA e : ~Gt(x.value, e.value))
             after == SelectSeq(sorted, LAMBDA e : Gt(x.value, e.value))
         IN  before \o <<x>> \o after

\* the body of the categoryAllocationData memo: monthStart and monthEnd are
\* the first and the last day of the local month of new Date(selectedMonth + '-01')
categoryAllocationData(accs, txs, selectedMonth, st) ==
    LET month == LocalMonth(NewDate([m |-> selectedMonth, d |-> 1]))
        categoryMap == CategoryMap(accs, txs, month, st, Len(txs))
    IN  SortByValue(categoryMap, Len(categoryMap))

\* the allocation the page computes when the memo runs now
CurrentAllocation ==
    allocationData(accounts, transactions, selectedDate(dashboard.selectedMonth), settings,
                   calculatePortfolioStats(portfolio, settings).totalValue)

\* the Dashboard is mounted: the selected month is the month of today, the
\* mode is MoM and every memo runs
MountDashboard ==
    /\ ~dashboard.mounted
    /\ dashboard' = [mounted |-> TRUE,
                     selectedMonth |-> LocalMonth(Today),
                     percentageMode |-> "MoM",
                     allocationData |->
                         allocationData(accounts, transactions,
                                        selectedDate(LocalMonth(Today)), settings,
                                        calculatePortfolioStats(portfolio, settings).totalValue)]
    /\ UNCHANGED <<accounts, transactions, settings, tz, portfolio, txForm, call>>

\* navigation to another page
UnmountDashboard ==
    /\ dashboard.mounted
    /\ dashboard' = DashboardUnmounted
    /\ UNCHANGED <<accounts, transactions, settings, tz, portfolio, txForm, call>>

\* the month dropdown: setSelectedMonth; selectedDate is not among the
\* dependencies of allocationData, so that memo keeps its value
SelectMonth ==
    \E month \in months :
        /\ dashboard.mounted
        /\ dashboard' = [dashboard EXCEPT !.selectedMonth = month]
        /\ UNCHANGED <<accounts, transactions, settings, tz, portfolio, txForm, call>>

\* the MoM and YoY buttons
SetPercentageMode ==
    \E mode \in {"MoM", "YoY"} :
        /\ dashboard.mounted
        /\ dashboard' = [dashboard EXCEPT !.percentageMode = mode]
        /\ UNCHANGED <<accounts, transactions, settings, tz, portfolio, txForm, call>>

\* Layout.toggleTheme, on every page: from 'system' the new theme depends on
\* the media query; settings is replaced, so a mounted Dashboard runs the
\* allocationData memo again, with the selectedDate of this render
ToggleTheme ==
    \E theme \in {"light", "dark"} :
        /\ settings.theme # theme
        /\ settings' = [settings EXCEPT !.theme = theme]
        /\ dashboard' =
               IF dashboard.mounted
               THEN [dashboard EXCEPT !.allocationData =
                        allocationData(accounts, transactions,
                                       selectedDate(dashboard.selectedMonth), settings',
                                       calculatePortfolioStats(portfolio, settings').totalValue)]
               ELSE dashboard
        /\ UNCHANGED <<accounts, transactions, tz, portfolio, txForm, call>>

\* the ledgers the store holds when the Dashboard is opened
DashboardLedgers ==
    LET a1 == [id |-> "a1", currency |-> "USD", initialBalance |-> Num(100), type |-> "Bank"]
        a2 == [id |-> "a2", currency |-> "MYR", initialBalance |-> Num(47), type |-> "Cash"]
        a3 == [id |-> "a3", currency |-> "USD", initialBalance |-> Num(20), type |-> "Bank"]
        tx(type, from, to, amount, category, m, d) ==
            [type |-> type, accountId |-> from, toAccountId |-> to, amount |-> Num(amount),
             toAmount |-> Undefined, category |-> category, date |-> [m |-> m, d |-> d]]
    IN  {<< <<>>, <<>> >>,
         << <<a1, a2, a3>>,
            <<tx("Expense", "a1", NoAccount, 10, "Food", 2, 10),
              tx("Income", "a1", NoAccount, 30, "Salary", 3, 1),
              tx("Expense", "a3", NoAccount, 5, "Rent", 3, 7),
              tx("Expense", "a1", NoAccount, 2, "Food", 3, 9),
              tx("Transfer", "a1", "a3", 4, "Transfer", 3, 11),
              tx("Expense", "a2", NoAccount, 47, "Food", 3, 12)>> >>}

InitDashboard ==
    /\ \E ledger \in DashboardLedgers :
          accounts = ledger[1] /\ transactions = ledger[2]
    /\ portfolio \in PortfolioSnapshots
    /\ settings = DEFAULT_SETTINGS
    /\ tz \in TimeZones
    /\ txForm = FormClosed
    /\ call = NoCall
    /\ dashboard = DashboardUnmounted

NextDashboard ==
    \/ MountDashboard
    \/ UnmountDashboard
    \/ SelectMonth
    \/ SetPercentageMode
    \/ ToggleTheme

SpecDashboard == InitDashboard /\ [][NextDashboard]_vars

---------------------------------------------------------------------------
(* C21: the instants the Dashboard evaluates net worth and cash at.        *)

\* 23:59:59.999 local time on the last day of a month
C21_MonthEnd(month) == [h |-> 24 * DaysBefore(month + 1) - 1 - tz, ms |-> 3599999]

\* C21: the current figures are cut off at the end of the selected month and
\* the comparison figures at the end of the month before it (MoM) or of the
\* same month one year earlier (YoY), for every month of the dropdown.
C21_EvaluatedAtMonthEnds ==
    dashboard.mounted =>
        LET date == selectedDate(dashboard.selectedMonth)
            comparison == comparisonDate(dashboard.percentageMode, date)
        IN  /\ endOfMonth(date) = C21_MonthEnd(dashboard.selectedMonth)
            /\ endOfMonth(comparison) =
                   C21_MonthEnd(IF dashboard.percentageMode = "MoM"
                                THEN dashboard.selectedMonth - 1
                                ELSE dashboard.selectedMonth - 12)

---------------------------------------------------------------------------
(* C22: the buckets of the asset allocation.                               *)

\* sum of the converted balances of the accounts with a type tag
RECURSIVE C22_TypeSum(_, _, _)
C22_TypeSum(type, date, i) ==
    IF i = 0 THEN Num(0)
    ELSE IF accounts[i].type = type
         THEN Add(C22_TypeSum(type, date, i - 1),
                  convertCurrency(getAccountBalanceAtDate(accounts[i], transactions, date),
                                  accounts[i].currency, settings.baseCurrency,
                                  settings.exchangeRates))
         ELSE C22_TypeSum(type, date, i - 1)

\* C22: the asset allocation has one bucket per account type tag, holding the
\* sum of the converted balances of the accounts with that tag, and exactly
\* one more bucket, the synthetic one, holding the total portfolio value,
\* whatever that value is.
C22_AllocationBuckets ==
    dashboard.mounted =>
        LET date == selectedDate(dashboard.selectedMonth)
            totalValue == calculatePortfolioStats(portfolio, settings).totalValue
            data == allocationData(accounts, transactions, date, settings, totalValue)
            types == {accounts[i].type : i \in 1..Len(accounts)}
        IN  /\ Len(data) = Cardinality(types) + 1
            /\ \A type \in types :
                  \E k \in 1..Len(data) :
                      data[k].name = type /\ data[k].value = C22_TypeSum(type, date, Len(accounts))
            /\ \E k \in 1..Len(data) :
                  /\ data[k].name = "Stock Portfolio"
                  /\ data[k].name \notin types
                  /\ data[k].value = totalValue

---------------------------------------------------------------------------
(* C23: the buckets of the expense breakdown.                              *)

\* an expense dated within a calendar month
C23_Qualifies(t, month) == t.type = "Expense" /\ t.date.m = month

\* sum of the converted amounts of the expenses of a month with a category
RECURSIVE C23_CategorySum(_, _, _)
C23_CategorySum(category, month, i) ==
    IF i = 0 THEN Num(0)
    ELSE IF C23_Qualifies(transactions[i], month) /\ transactions[i].category = category
         THEN Add(C23_CategorySum(category, month, i - 1),
                  IF HasAccount(transactions[i].accountId)
                  THEN convertCurrency(transactions[i].amount,
                                       CurrencyOf(transactions[i].accountId),
                                       settings.baseCurrency, settings.exchangeRates)
                  ELSE NaN)
         ELSE C23_CategorySum(category, month, i - 1)

\* C23: the expense breakdown of the selected month has one bucket per
\* category of the expenses dated within that calendar month, its value is the
\* sum of their amounts converted to the base currency, Income and Transfer
\* contribute nothing, and the buckets are ordered by non-increasing value.
C23_ExpenseBreakdown ==
    dashboard.mounted =>
        LET month == dashboard.selectedMonth
            data == categoryAllocationData(accounts, transactions, month, settings)
            categories == {transactions[i].category :
                              i \in {j \in 1..Len(transactions) :
                                        C23_Qualifies(transactions[j], month)}}
        IN  /\ Len(data) = Cardinality(categories)
            /\ {data[k].name : k \in 1..Len(data)} = categories
            /\ \A k \in 1..Len(data) :
                  data[k].value = C23_CategorySum(data[k].name, month, Len(transactions))
            /\ \A k \in 1..(Len(data) - 1) : ~Gt(data[k + 1].value, data[k].value)

---------------------------------------------------------------------------
(* C28: the asset allocation that is displayed.                            *)

\* C28: after any sequence of month selections, mode changes and store
\* updates on the Dashboard, the displayed asset allocation is the allocation
\* of the current accounts and transactions at the currently selected month.
C28_DisplayedAllocationIsCurrent ==
    dashboard.mounted => dashboard.allocationData = CurrentAllocation

====
